---- MODULE Spec2Model ----
(***************************************************************************)
(* cryp: the command-line authenticated-encryption tool of                 *)
(* src/src/bin/cryp.rs (AES-256-CBC + HMAC-SHA256, encrypt-then-MAC).      *)
(*                                                                         *)
(* One behaviour is one process run.  Two specifications:                  *)
(*   Spec      the process from its start: the argument vector is checked  *)
(*             and parsed (main, lines 30-57);                             *)
(*   SpecBody  main from line 59 on (key read, derivation, enc and dec     *)
(*             branches), started with the four paths bound the way the    *)
(*             parsing loop binds them.                                    *)
(* Bytes are the naturals 0..255, byte strings are sequences of them.      *)
(* AES and HMAC-SHA256 are library primitives; they are modelled by        *)
(* stand-ins that keep the properties the tool relies on (see below).      *)
(***************************************************************************)
EXTENDS Integers, Sequences, FiniteSets, TLC

VARIABLES
    args,         \* env::args(): the argument vector, program name first
    i,            \* the parsing loop's index (0-based, as in the source)
    mode,         \* args[1]
    key_file,     \* the four paths bound by the parsing loop ("" = unbound)
    input_file,
    output_file,
    tag_file,
    pc,           \* the place in main the run has reached
    exit_code,    \* the process exit status, meaningful when pc = "exited"
    fs,           \* the file system: path -> [exists, data]
    key,          \* trimmed key-file bytes
    real_key,     \* the 32-byte key
    input_data,
    iv,
    encrypted,
    final_data,
    tag,
    tag_data,
    decrypted,
    steps,        \* history: the steps of main executed so far, in order
    written       \* history: the paths this run has written, in order

vars == <<args, i, mode, key_file, input_file, output_file, tag_file, pc,
          exit_code, fs, key, real_key, input_data, iv, encrypted, final_data,
          tag, tag_data, decrypted, steps, written>>

----------------------------------------------------------------------------
(* Program constants *)

\* args.len() must equal this (line 32)
ArgCount == 9

\* [0u8; 32]: the AES-256 / HMAC key size (line 69)
KeyLen == 32

\* vec![0u8; 16], split_at(16): the IV and AES block size (lines 86, 133, 139)
BlockSize == 16

\* HMAC-SHA256 output size (type HmacSha256, line 9)
TagLen == 32

\* the exit status of a Rust process that panicked
PanicCode == 101

----------------------------------------------------------------------------
(* Bounds of the model *)

\* argument vectors of length 0..MaxArgs are considered
MaxArgs == 11

\* the longest secret in the key files
MaxSecret == 40

\* the longest plaintext in the input files
MaxPlain == 17

----------------------------------------------------------------------------
(* Bytes *)

Byte == 0..255

RECURSIVE BitXor(_, _)
BitXor(a, b) ==
    IF a = 0 THEN b
    ELSE IF b = 0 THEN a
    ELSE (((a % 2) + (b % 2)) % 2) + 2 * BitXor(a \div 2, b \div 2)

XorBlock(x, y) == [j \in 1..BlockSize |-> BitXor(x[j], y[j])]

Repeat(b, n) == [j \in 1..n |-> b]

Range(s) == {s[j] : j \in 1..Len(s)}

----------------------------------------------------------------------------
(* The cipher: openssl AES-256-CBC with PKCS#7 padding.                    *)
(* The block permutation of AES is a library primitive; BlockEnc is a      *)
(* key-dependent bijection on 16-byte blocks standing in for it, BlockDec  *)
(* its inverse.  CBC chaining, padding and the error cases of the          *)
(* Crypter (update, finalize) are modelled as openssl performs them.       *)

BlockEnc(k, b) ==
    [j \in 1..BlockSize |-> (b[j] + k[j] + 7 * k[j + BlockSize] + j) % 256]

BlockDec(k, c) ==
    [j \in 1..BlockSize |->
        (c[j] + 256 * 9 - k[j] - 7 * k[j + BlockSize] - j) % 256]

Pkcs7Pad(data) ==
    LET n == BlockSize - (Len(data) % BlockSize)
    IN  data \o Repeat(n, n)

RECURSIVE CbcEnc(_, _, _)
CbcEnc(k, prev, padded) ==
    IF Len(padded) = 0 THEN <<>>
    ELSE LET c == BlockEnc(k, XorBlock(SubSeq(padded, 1, BlockSize), prev))
         IN  c \o CbcEnc(k, c, SubSeq(padded, BlockSize + 1, Len(padded)))

RECURSIVE CbcDec(_, _, _)
CbcDec(k, prev, data) ==
    IF Len(data) = 0 THEN <<>>
    ELSE LET c == SubSeq(data, 1, BlockSize)
         IN  XorBlock(BlockDec(k, c), prev)
                 \o CbcDec(k, c, SubSeq(data, BlockSize + 1, Len(data)))

\* encrypt_data: never fails for a 32-byte key and a 16-byte IV
encrypt_data(k, v, data) == CbcEnc(k, v, Pkcs7Pad(data))

\* finalize() of a decrypting Crypter fails when no full final block was
\* given (empty data, or a length that is no multiple of the block size)
\* and when the padding of the last block does not validate.
decrypt_data(k, v, data) ==
    IF Len(data) = 0 \/ Len(data) % BlockSize # 0
    THEN [ok |-> FALSE, data |-> <<>>]
    ELSE LET p == CbcDec(k, v, data)
             n == p[Len(p)]
         IN  IF n >= 1 /\ n <= BlockSize
                /\ \A j \in (Len(p) - n + 1)..Len(p) : p[j] = n
             THEN [ok |-> TRUE, data |-> SubSeq(p, 1, Len(p) - n)]
             ELSE [ok |-> FALSE, data |-> <<>>]

----------------------------------------------------------------------------
(* The MAC: HMAC-SHA256 is a library primitive.  HmacSha256 stands in for  *)
(* it: a 32-byte value in which every byte depends on the key, on every    *)
(* message byte with an odd weight, and on the message length, so that     *)
(* two keys that differ in a byte, or two messages that differ in one bit  *)
(* or in length by less than 256, never have the same tag (what            *)
(* HMAC-SHA256 gives up to a negligible probability).                      *)

RECURSIVE SumBytes(_)
SumBytes(m) == IF Len(m) = 0 THEN 0 ELSE m[1] + SumBytes(Tail(m))

RECURSIVE WeightedSum(_, _)
WeightedSum(m, j) ==
    IF Len(m) = 0 THEN 0 ELSE j * m[1] + WeightedSum(Tail(m), j + 1)

HmacSha256(k, m) ==
    LET s1 == SumBytes(m)
        s2 == WeightedSum(m, 1)
    IN  [j \in 1..TagLen |->
            (k[j] + (2 * j + 1) * s1 + 2 * s2 + Len(m)) % 256]

\* verify_slice with the bug of comparing only as many bytes as the tag
\* file holds
verify_slice_prefix(computed, given) ==
    /\ Len(given) <= Len(computed)
    /\ SubSeq(computed, 1, Len(given)) = given

\* mac.verify_slice(&tag_data): the lengths and all bytes agree
verify_slice(computed, given) == computed = given

----------------------------------------------------------------------------
(* Text: fs::read_to_string and str::trim *)

IsCont(b) == b >= 128 /\ b <= 191

\* std::str::from_utf8 as read_to_string applies it: the byte string is
\* well-formed UTF-8 (no overlong forms, no surrogates, at most U+10FFFF)
RECURSIVE IsUtf8(_)
IsUtf8(s) ==
    IF Len(s) = 0 THEN TRUE
    ELSE LET b == s[1]
             n == Len(s)
         IN  IF b < 128 THEN IsUtf8(Tail(s))
             ELSE IF b >= 194 /\ b <= 223
             THEN n >= 2 /\ IsCont(s[2]) /\ IsUtf8(SubSeq(s, 3, n))
             ELSE IF b >= 224 /\ b <= 239
             THEN /\ n >= 3
                  /\ IsCont(s[2])
                  /\ IsCont(s[3])
                  /\ (b = 224 => s[2] >= 160)
                  /\ (b = 237 => s[2] <= 159)
                  /\ IsUtf8(SubSeq(s, 4, n))
             ELSE IF b >= 240 /\ b <= 244
             THEN /\ n >= 4
                  /\ IsCont(s[2])
                  /\ IsCont(s[3])
                  /\ IsCont(s[4])
                  /\ (b = 240 => s[2] >= 144)
                  /\ (b = 244 => s[2] <= 143)
                  /\ IsUtf8(SubSeq(s, 5, n))
             ELSE FALSE

\* The UTF-8 encodings of the characters with the White_Space property
WhiteSpace ==
    {<<9>>, <<10>>, <<11>>, <<12>>, <<13>>, <<32>>,
     <<194, 133>>, <<194, 160>>, <<225, 154, 128>>,
     <<226, 128, 168>>, <<226, 128, 169>>, <<226, 128, 175>>,
     <<226, 129, 159>>, <<227, 128, 128>>}
        \cup {<<226, 128, b>> : b \in 128..138}

\* the byte length of the white-space character s starts with, 0 if none
LeadWs(s) ==
    LET ns == {n \in 1..3 : n <= Len(s) /\ SubSeq(s, 1, n) \in WhiteSpace}
    IN  IF ns = {} THEN 0 ELSE CHOOSE n \in ns : TRUE

\* the byte length of the white-space character s ends with, 0 if none
TrailWs(s) ==
    LET ns == {n \in 1..3 :
                 n <= Len(s) /\ SubSeq(s, Len(s) - n + 1, Len(s)) \in WhiteSpace}
    IN  IF ns = {} THEN 0 ELSE CHOOSE n \in ns : TRUE

RECURSIVE TrimStart(_)
TrimStart(s) ==
    IF LeadWs(s) = 0 THEN s ELSE TrimStart(SubSeq(s, LeadWs(s) + 1, Len(s)))

RECURSIVE TrimEnd(_)
TrimEnd(s) ==
    IF TrailWs(s) = 0 THEN s ELSE TrimEnd(SubSeq(s, 1, Len(s) - TrailWs(s)))

\* k.trim().as_bytes().to_vec()
Trim(s) == TrimEnd(TrimStart(s))

----------------------------------------------------------------------------
(* Key derivation (lines 69-72): zero-filled, then the first               *)
(* min(len, 32) bytes of the key copied in.                                *)

Min(a, b) == IF a < b THEN a ELSE b

\* RawFit with the bug of copying one byte less than the key holds
RawFit_short(key_bytes) ==
    LET len == Min(Len(key_bytes), KeyLen - 1)
    IN  [j \in 1..KeyLen |-> IF j <= len THEN key_bytes[j] ELSE 0]

RawFit(key_bytes) ==
    LET len == Min(Len(key_bytes), KeyLen)
    IN  [j \in 1..KeyLen |-> IF j <= len THEN key_bytes[j] ELSE 0]

----------------------------------------------------------------------------
(* The files on disk when the run starts *)

\* "correct-key"
CorrectKey == <<99, 111, 114, 114, 101, 99, 116, 45, 107, 101, 121>>

\* "wrong-key"
WrongKey == <<119, 114, 111, 110, 103, 45, 107, 101, 121>>

\* "hello world"
HelloWorld == <<104, 101, 108, 108, 111, 32, 119, 111, 114, 108, 100>>

\* a secret of MaxSecret letters, and one that differs from it in the last
LongSecret == [j \in 1..MaxSecret |-> 97 + (j % 26)]

LongSecret2 == [j \in 1..MaxSecret |-> IF j = MaxSecret THEN 33 ELSE 97 + (j % 26)]

\* a plaintext of MaxPlain bytes
LongPlain == [j \in 1..MaxPlain |-> (37 * j) % 256]

\* the values rand_bytes may fill the IV with
IVs == {[j \in 1..BlockSize |-> (11 * j + 3) % 256],
        [j \in 1..BlockSize |-> (250 + j) % 256]}

\* data with the lowest bit of byte n flipped
FlipBit(data, n) ==
    [j \in 1..Len(data) |->
        IF j = n THEN (IF data[j] % 2 = 0 THEN data[j] + 1 ELSE data[j] - 1)
        ELSE data[j]]

\* what an enc run is written to leave at -out and -tag (lines 102-111)
Envelope(secret, v, plain) == v \o encrypt_data(RawFit(Trim(secret)), v, plain)

TagOf(secret, envelope) == HmacSha256(RawFit(Trim(secret)), envelope)

Iv1 == CHOOSE v \in IVs : v[1] = 14

File(data) == [exists |-> TRUE, data |-> data]

NoFile == [exists |-> FALSE, data |-> <<>>]

KeyPaths ==
    {"shared.key", "padded.key", "nul.key", "other.key", "empty.key",
     "long.key", "long2.key", "exact.key", "binary.key", "missing.key"}

InPaths ==
    {"plain.txt", "empty.txt", "long.txt", "cipher.bin", "cipher.iv",
     "cipher.ct", "short.bin", "ivonly.bin", "odd.bin", "missing.bin"}

OutPaths == {"out.bin", "cipher.bin", "nodir/out.bin"}

TagPaths ==
    {"tag.bin", "tag.bad", "tag.cut", "ivonly.tag", "odd.tag", "short.tag",
     "missing.tag", "nodir/tag.bin"}

Paths == KeyPaths \cup InPaths \cup OutPaths \cup TagPaths

\* paths fs::write fails on (the directory does not exist)
Unwritable == {"nodir/out.bin", "nodir/tag.bin"}

CipherBin == Envelope(CorrectKey, Iv1, HelloWorld)

IvOnly == Iv1

OddBin == Iv1 \o SubSeq(LongPlain, 1, BlockSize + 1)

ShortBin == <<1, 2, 3, 4, 5>>

BaseFs ==
    [p \in Paths |->
        CASE p = "shared.key" -> File(CorrectKey)
          [] p = "padded.key" -> File(<<32>> \o CorrectKey \o <<13, 10>>)
          [] p = "nul.key"    -> File(CorrectKey \o <<0>>)
          [] p = "other.key"  -> File(WrongKey)
          [] p = "empty.key"  -> File(<<>>)
          [] p = "long.key"   -> File(LongSecret)
          [] p = "long2.key"  -> File(LongSecret2)
          [] p = "exact.key"  -> File(SubSeq(LongSecret, 1, KeyLen))
          [] p = "binary.key" -> File(<<255, 254, 1>>)
          [] p = "plain.txt"  -> File(HelloWorld)
          [] p = "empty.txt"  -> File(<<>>)
          [] p = "long.txt"   -> File(LongPlain)
          [] p = "cipher.bin" -> File(CipherBin)
          [] p = "cipher.iv"  -> File(FlipBit(CipherBin, 1))
          [] p = "cipher.ct"  -> File(FlipBit(CipherBin, Len(CipherBin)))
          [] p = "short.bin"  -> File(ShortBin)
          [] p = "ivonly.bin" -> File(IvOnly)
          [] p = "odd.bin"    -> File(OddBin)
          [] p = "tag.bin"    -> File(TagOf(CorrectKey, CipherBin))
          [] p = "tag.bad"    -> File(FlipBit(TagOf(CorrectKey, CipherBin), TagLen))
          [] p = "tag.cut"    ->
                File(SubSeq(TagOf(CorrectKey, CipherBin), 1, TagLen - 1))
          [] p = "ivonly.tag" -> File(TagOf(CorrectKey, IvOnly))
          [] p = "odd.tag"    -> File(TagOf(CorrectKey, OddBin))
          [] p = "short.tag"  -> File(TagOf(CorrectKey, ShortBin))
          [] OTHER            -> NoFile]

\* fs::read, fs::read_to_string: Err when there is no such file
ReadFile(p) == IF p \in DOMAIN fs THEN fs[p] ELSE NoFile

\* fs::write: Err when the file cannot be created
CanWrite(p) == p \in DOMAIN fs /\ p \notin Unwritable

WriteFile(p, data) == [fs EXCEPT ![p] = File(data)]

----------------------------------------------------------------------------
(* Argument vectors *)

Flags == <<"-key", "-in", "-out", "-tag">>

KnownFlags == Range(Flags)

Orders == {o \in [1..4 -> 1..4] : \A a, b \in 1..4 : o[a] = o[b] => a = b}

\* tool <mode> -key <path> -in <path> -out <path> -tag <path>, the four
\* flag/value pairs in the order o
Documented(m, k, inp, out, tg, o) ==
    LET val == <<k, inp, out, tg>>
    IN  <<"cryp", m,
          Flags[o[1]], val[o[1]], Flags[o[2]], val[o[2]],
          Flags[o[3]], val[o[3]], Flags[o[4]], val[o[4]]>>

Identity == [n \in 1..4 |-> n]

\* the invocations run from the process start
Scenarios ==
    {<<"enc", "shared.key", "plain.txt", "out.bin", "tag.bin">>,
     <<"enc", "empty.key", "empty.txt", "out.bin", "tag.bin">>,
     <<"dec", "shared.key", "cipher.bin", "out.bin", "tag.bin">>,
     <<"dec", "shared.key", "cipher.ct", "out.bin", "tag.bin">>,
     <<"dec", "shared.key", "cipher.bin", "out.bin", "tag.bad">>,
     <<"dec", "other.key", "cipher.bin", "out.bin", "tag.bin">>,
     <<"sign", "shared.key", "plain.txt", "out.bin", "tag.bin">>}

\* v with position n (when n > 0) replaced by the token t
Substitute(v, n, t) == [j \in 1..Len(v) |-> IF j = n THEN t ELSE v[j]]

\* v cut or extended with further tokens to the length n
Resize(v, n) == [j \in 1..n |-> IF j <= Len(v) THEN v[j] ELSE "extra"]

Argvs ==
    {Resize(Substitute(Documented(sc[1], sc[2], sc[3], sc[4], sc[5], o), n, t), len) :
        sc \in Scenarios, o \in Orders, n \in {0, 3, 5, 7, 9},
        t \in {"-x", "-key"}, len \in 0..MaxArgs}

----------------------------------------------------------------------------
(* The state after construction *)

Locals ==
    /\ key = <<>>
    /\ real_key = <<>>
    /\ input_data = <<>>
    /\ iv = <<>>
    /\ encrypted = <<>>
    /\ final_data = <<>>
    /\ tag = <<>>
    /\ tag_data = <<>>
    /\ decrypted = <<>>
    /\ steps = <<>>
    /\ written = <<>>
    /\ exit_code = 0
    /\ fs = BaseFs

\* the process starts: nothing is parsed yet
Init ==
    /\ args \in Argvs
    /\ pc = "start"
    /\ i = 0
    /\ mode = ""
    /\ key_file = ""
    /\ input_file = ""
    /\ output_file = ""
    /\ tag_file = ""
    /\ Locals

\* main at line 59, the four paths bound
InitBody ==
    /\ mode \in {"enc", "dec", "sign"}
    /\ key_file \in KeyPaths
    /\ input_file \in InPaths
    /\ output_file \in OutPaths
    /\ tag_file \in TagPaths
    /\ args = Documented(mode, key_file, input_file, output_file, tag_file, Identity)
    /\ i = Len(args)
    /\ pc = "read_key"
    /\ Locals

argVars == <<args, mode, key_file, input_file, output_file, tag_file>>

dataVars == <<key, real_key, input_data, iv, encrypted, final_data, tag,
              tag_data, decrypted>>

\* println!(...); process::exit(code)
Exit(code) == pc' = "exited" /\ exit_code' = code

Goto(label) == pc' = label /\ exit_code' = exit_code

Exited == pc = "exited"

----------------------------------------------------------------------------
(* Argument parsing (lines 30-57) *)

\* lines 30-44: the argument count, then mode = &args[1] and i = 2
CheckArgc ==
    /\ pc = "start"
    /\ steps' = Append(steps, "CheckArgc")
    /\ IF Len(args) # ArgCount
       THEN Exit(2) /\ UNCHANGED <<i, mode>>
       ELSE Goto("parse") /\ mode' = args[2] /\ i' = 2
    /\ UNCHANGED <<args, key_file, input_file, output_file, tag_file, fs,
                   dataVars, written>>

\* lines 45-57: one turn of the loop.  args[i] of the source is args[i + 1]
\* here; &args[i + 1] of the source panics when i + 1 is no index of args.
ParseFlag ==
    /\ pc = "parse"
    /\ i < Len(args)
    /\ steps' = Append(steps, "ParseFlag")
    /\ LET flag == args[i + 1]
       IN  IF flag \notin KnownFlags
           THEN /\ Exit(2)
                /\ UNCHANGED <<i, key_file, input_file, output_file, tag_file>>
           ELSE IF i + 1 >= Len(args)
           THEN /\ Exit(PanicCode)
                /\ UNCHANGED <<i, key_file, input_file, output_file, tag_file>>
           ELSE /\ key_file' = IF flag = "-key" THEN args[i + 2] ELSE key_file
                /\ input_file' = IF flag = "-in" THEN args[i + 2] ELSE input_file
                /\ output_file' = IF flag = "-out" THEN args[i + 2] ELSE output_file
                /\ tag_file' = IF flag = "-tag" THEN args[i + 2] ELSE tag_file
                /\ i' = i + 2
                /\ Goto(IF i + 2 < Len(args) THEN "parse" ELSE "read_key")
    /\ UNCHANGED <<args, mode, fs, dataVars, written>>

----------------------------------------------------------------------------
(* main from the key read on (lines 59-171) *)

\* lines 59-72: read the key file as text, trim it, fit it to 32 bytes
ReadKey ==
    /\ pc = "read_key"
    /\ steps' = Append(steps, "ReadKey")
    /\ LET f == ReadFile(key_file)
       IN  IF ~f.exists \/ ~IsUtf8(f.data)
           THEN Exit(2) /\ UNCHANGED <<key, real_key>>
           ELSE /\ key' = Trim(f.data)
                /\ real_key' = RawFit(key')
                /\ Goto("read_input")
    /\ UNCHANGED <<argVars, i, fs, input_data, iv, encrypted, final_data, tag,
                   tag_data, decrypted, written>>

\* lines 74-81
ReadInput ==
    /\ pc = "read_input"
    /\ steps' = Append(steps, "ReadInput")
    /\ LET f == ReadFile(input_file)
       IN  IF ~f.exists
           THEN Exit(2) /\ UNCHANGED input_data
           ELSE input_data' = f.data /\ Goto("match_mode")
    /\ UNCHANGED <<argVars, i, fs, key, real_key, iv, encrypted, final_data,
                   tag, tag_data, decrypted, written>>

\* lines 83-84, 123, 166-169: match mode.as_str()
MatchMode ==
    /\ pc = "match_mode"
    /\ steps' = Append(steps, "MatchMode")
    /\ IF mode = "enc" THEN Goto("enc_iv")
       ELSE IF mode = "dec" THEN Goto("dec_read_tag")
       ELSE Exit(2)
    /\ UNCHANGED <<argVars, i, fs, dataVars, written>>

\* lines 85-90: rand_bytes fills the IV, or reports an error
EncGenIv ==
    /\ pc = "enc_iv"
    /\ steps' = Append(steps, "EncGenIv")
    /\ \E r \in IVs \cup {<<>>} :
         IF r = <<>>
         THEN Exit(2) /\ iv' = Repeat(0, BlockSize)
         ELSE iv' = r /\ Goto("enc_encrypt")
    /\ UNCHANGED <<argVars, i, fs, key, real_key, input_data, encrypted,
                   final_data, tag, tag_data, decrypted, written>>

\* lines 92-111: encrypt, prepend the IV, MAC the whole
EncEncrypt ==
    /\ pc = "enc_encrypt"
    /\ steps' = Append(steps, "EncEncrypt")
    /\ encrypted' = encrypt_data(real_key, iv, input_data)
    /\ final_data' = iv \o encrypted'
    /\ tag' = HmacSha256(real_key, final_data')
    /\ Goto("enc_write_out")
    /\ UNCHANGED <<argVars, i, fs, key, real_key, input_data, iv, tag_data,
                   decrypted, written>>

\* lines 113-117: fs::write(output_file, final_data)
EncWriteOut ==
    /\ pc = "enc_write_out"
    /\ steps' = Append(steps, "EncWriteOut")
    /\ IF CanWrite(output_file)
       THEN /\ fs' = WriteFile(output_file, final_data)
            /\ written' = Append(written, output_file)
            /\ Goto("enc_write_tag")
       ELSE Exit(2) /\ UNCHANGED <<fs, written>>
    /\ UNCHANGED <<argVars, i, dataVars>>

\* lines 118-122: fs::write(tag_file, tag), then main returns
EncWriteTag ==
    /\ pc = "enc_write_tag"
    /\ steps' = Append(steps, "EncWriteTag")
    /\ IF CanWrite(tag_file)
       THEN /\ fs' = WriteFile(tag_file, tag)
            /\ written' = Append(written, tag_file)
            /\ Exit(0)
       ELSE Exit(2) /\ UNCHANGED <<fs, written>>
    /\ UNCHANGED <<argVars, i, dataVars>>

\* lines 124-131
DecReadTag ==
    /\ pc = "dec_read_tag"
    /\ steps' = Append(steps, "DecReadTag")
    /\ LET f == ReadFile(tag_file)
       IN  IF ~f.exists
           THEN Exit(2) /\ UNCHANGED tag_data
           ELSE tag_data' = f.data /\ Goto("dec_split")
    /\ UNCHANGED <<argVars, i, fs, key, real_key, input_data, iv, encrypted,
                   final_data, tag, decrypted, written>>

\* lines 133-139: the length check, then split_at(16)
DecSplit ==
    /\ pc = "dec_split"
    /\ steps' = Append(steps, "DecSplit")
    /\ IF Len(input_data) < BlockSize
       THEN Exit(2) /\ UNCHANGED <<iv, encrypted>>
       ELSE /\ iv' = SubSeq(input_data, 1, BlockSize)
            /\ encrypted' = SubSeq(input_data, BlockSize + 1, Len(input_data))
            /\ Goto("dec_verify")
    /\ UNCHANGED <<argVars, i, fs, key, real_key, input_data, final_data, tag,
                   tag_data, decrypted, written>>

\* lines 141-148: HMAC over input_data, compared with the tag file
DecVerify ==
    /\ pc = "dec_verify"
    /\ steps' = Append(steps, "DecVerify")
    /\ tag' = HmacSha256(real_key, input_data)
    /\ IF verify_slice(tag', tag_data)
       THEN Goto("dec_decrypt")
       ELSE Exit(1)
    /\ UNCHANGED <<argVars, i, fs, key, real_key, input_data, iv, encrypted,
                   final_data, tag_data, decrypted, written>>

\* lines 150-158
DecDecrypt ==
    /\ pc = "dec_decrypt"
    /\ steps' = Append(steps, "DecDecrypt")
    /\ LET r == decrypt_data(real_key, iv, encrypted)
       IN  IF r.ok
           THEN decrypted' = r.data /\ Goto("dec_write")
           ELSE Exit(2) /\ UNCHANGED decrypted
    /\ UNCHANGED <<argVars, i, fs, key, real_key, input_data, iv, encrypted,
                   final_data, tag, tag_data, written>>

\* lines 160-165: fs::write(output_file, decrypted), then main returns
DecWrite ==
    /\ pc = "dec_write"
    /\ steps' = Append(steps, "DecWrite")
    /\ IF CanWrite(output_file)
       THEN /\ fs' = WriteFile(output_file, decrypted)
            /\ written' = Append(written, output_file)
            /\ Exit(0)
       ELSE Exit(2) /\ UNCHANGED <<fs, written>>
    /\ UNCHANGED <<argVars, i, dataVars>>

----------------------------------------------------------------------------
(* Specifications *)

Next == CheckArgc \/ ParseFlag

Spec == Init /\ [][Next]_vars

NextBody ==
    \/ ReadKey
    \/ ReadInput
    \/ MatchMode
    \/ EncGenIv
    \/ EncEncrypt
    \/ EncWriteOut
    \/ EncWriteTag
    \/ DecReadTag
    \/ DecSplit
    \/ DecVerify
    \/ DecDecrypt
    \/ DecWrite

SpecBody == InitBody /\ [][NextBody]_vars

----------------------------------------------------------------------------
(* Vocabulary of the properties *)

Has(step) == \E j \in 1..Len(steps) : steps[j] = step

LastStep == IF Len(steps) = 0 THEN "" ELSE steps[Len(steps)]

\* the positions of args where a flag is expected
FlagPositions == {j \in 3..Len(args) : j % 2 = 1}

\* tool <mode> -key <path> -in <path> -out <path> -tag <path>, in any order
IsDocumented ==
    /\ Len(args) = 10
    /\ args[2] \in {"enc", "dec"}
    /\ {args[j] : j \in FlagPositions} = KnownFlags

\* the value given with flag f ("" when f is not given with a value)
ArgValue(f) ==
    LET js == {j \in FlagPositions : args[j] = f /\ j < Len(args)}
    IN  IF js = {} THEN "" ELSE args[(CHOOSE j \in js : \A k \in js : k <= j) + 1]

HasUnknownFlag == \E j \in FlagPositions : args[j] \notin KnownFlags

HasFlagWithoutValue ==
    Len(args) >= 3 /\ Len(args) % 2 = 1 /\ args[Len(args)] \in KnownFlags

OmitsFlag == \E f \in KnownFlags : \A j \in FlagPositions : args[j] # f

\* the file at path p when the run starts
FileAt(p) == IF p \in Paths THEN BaseFs[p] ELSE NoFile

\* the secret a key file holds, when it can be read as text
ReadableKey(p) == FileAt(p).exists /\ IsUtf8(FileAt(p).data)

DerivedKey(p) == RawFit(Trim(FileAt(p).data))

Plaintexts == {HelloWorld, <<>>, LongPlain}

\* the envelopes an enc run with key file kp is written to produce
EnvelopesOf(kp) ==
    {Envelope(FileAt(kp).data, v, pl) : v \in IVs, pl \in Plaintexts}

\* the file at path p differs from data in exactly one bit
OneBitOff(p, data) ==
    /\ FileAt(p).exists
    /\ \E n \in 1..Len(data) : FileAt(p).data = FlipBit(data, n)

\* Arguments are never accepted: no run gets past the parsing loop, because
\* an argument vector of ArgCount elements ends with a flag, not a value.
ArgumentsNeverAccepted == pc # "read_key"

----------------------------------------------------------------------------
(* C1. In a dec run the cipher is applied and -out is written only after   *)
(* the HMAC recomputed over the envelope bytes was found equal to the tag  *)
(* file; when the recomputed HMAC differs, the run ends with exit code 1,  *)
(* no decryption attempted and nothing written.                            *)
C1_VerifyThenDecrypt ==
    mode = "dec" =>
        /\ \A j \in 1..Len(steps) :
              steps[j] \in {"DecDecrypt", "DecWrite"}
                  => \E k \in 1..(j - 1) : steps[k] = "DecVerify"
        /\ (Has("DecDecrypt") \/ written # <<>>)
              => HmacSha256(real_key, input_data) = tag_data
        /\ (Has("DecVerify") /\ HmacSha256(real_key, input_data) # tag_data)
              => /\ Exited
                 /\ exit_code = 1
                 /\ ~Has("DecDecrypt")
                 /\ decrypted = <<>>
                 /\ written = <<>>
                 /\ fs = BaseFs

\* a dec run whose tag file is the true tag cut by one byte is refused
C1_Witness ==
    /\ mode = "dec"
    /\ Has("DecVerify")
    /\ tag_data = SubSeq(HmacSha256(real_key, input_data), 1, TagLen - 1)
    /\ Exited
    /\ exit_code = 1

----------------------------------------------------------------------------
(* C2. Every run ends with exit code 0, 1 or 2, never by a panic: 0 only   *)
(* when the operation completed and its output was written, 1 only when    *)
(* the tag verification of a dec run failed, 2 for every other failure.    *)
C2_ExitCodes ==
    Exited =>
        /\ exit_code \in {0, 1, 2}
        /\ exit_code = 0 => LastStep \in {"EncWriteTag", "DecWrite"}
                            /\ written # <<>>
        /\ exit_code = 1 => mode = "dec" /\ LastStep = "DecVerify"

----------------------------------------------------------------------------
(* C3. An invocation of the documented shape, the four flag/value pairs in *)
(* any order, passes argument parsing: every path is bound to its flag     *)
(* and the run goes on to read the key file.                               *)
C3_DocumentedShapeParses ==
    (IsDocumented /\ pc \notin {"start", "parse"}) =>
        /\ pc # "exited" \/ LastStep \notin {"CheckArgc", "ParseFlag"}
        /\ key_file = ArgValue("-key")
        /\ input_file = ArgValue("-in")
        /\ output_file = ArgValue("-out")
        /\ tag_file = ArgValue("-tag")

----------------------------------------------------------------------------
(* C4. An invocation with an unrecognized flag, with a flag that no value  *)
(* follows, or without one of the four flags ends with exit code 2 before  *)
(* any file is read or written.                                            *)
C4_MalformedRejected ==
    ((HasUnknownFlag \/ HasFlagWithoutValue \/ OmitsFlag) /\ Exited) =>
        /\ exit_code = 2
        /\ LastStep \in {"CheckArgc", "ParseFlag"}
        /\ written = <<>>

----------------------------------------------------------------------------
(* C5. Round trip: an enc run on a readable plaintext with a readable key  *)
(* ends with exit code 0, and a dec run with the same key on an envelope   *)
(* and tag as enc writes them ends with exit code 0, the plaintext at      *)
(* -out.                                                                   *)
C5_RoundTrip ==
    (IsDocumented /\ Exited /\ ReadableKey(ArgValue("-key"))
        /\ CanWrite(ArgValue("-out"))) =>
        /\ (args[2] = "enc" /\ FileAt(ArgValue("-in")).exists
               /\ CanWrite(ArgValue("-tag")))
              => exit_code = 0
        /\ \A v \in IVs, pl \in Plaintexts :
              LET e == Envelope(FileAt(ArgValue("-key")).data, v, pl)
              IN  (/\ args[2] = "dec"
                   /\ FileAt(ArgValue("-in")) = File(e)
                   /\ FileAt(ArgValue("-tag"))
                          = File(TagOf(FileAt(ArgValue("-key")).data, e)))
                  => /\ exit_code = 0
                     /\ ReadFile(ArgValue("-out")) = File(pl)

----------------------------------------------------------------------------
(* C6. Tamper detection: a dec run on an envelope and tag as enc writes    *)
(* them, one bit of the envelope or of the tag changed, ends with exit     *)
(* code 1 and nothing written.                                             *)
C6_TamperDetected ==
    (IsDocumented /\ Exited /\ args[2] = "dec"
        /\ ReadableKey(ArgValue("-key"))) =>
        \A e \in EnvelopesOf(ArgValue("-key")) :
            LET t == TagOf(FileAt(ArgValue("-key")).data, e)
            IN  (\/ /\ OneBitOff(ArgValue("-in"), e)
                    /\ FileAt(ArgValue("-tag")) = File(t)
                 \/ /\ FileAt(ArgValue("-in")) = File(e)
                    /\ OneBitOff(ArgValue("-tag"), t))
                => exit_code = 1 /\ written = <<>>

----------------------------------------------------------------------------
(* C7. Wrong key: a dec run with secret S2 on an envelope and tag as enc   *)
(* writes them with a secret S1 # S2 ends with exit code 1, nothing        *)
(* written.                                                                *)
C7_WrongKeyRejected ==
    (IsDocumented /\ Exited /\ args[2] = "dec"
        /\ ReadableKey(ArgValue("-key"))) =>
        \A kp \in {q \in KeyPaths : ReadableKey(q)} :
            \A e \in EnvelopesOf(kp) :
                (/\ FileAt(kp).data # FileAt(ArgValue("-key")).data
                 /\ FileAt(ArgValue("-in")) = File(e)
                 /\ FileAt(ArgValue("-tag")) = File(TagOf(FileAt(kp).data, e)))
                => exit_code = 1 /\ written = <<>>

----------------------------------------------------------------------------
----------------------------------------------------------------------------
(* C9. Key derivation: whatever the length of the trimmed secret, the key  *)
(* has 32 bytes, the first min(len, 32) bytes of the trimmed secret and    *)
(* then zero bytes; reading a key file that holds text never fails; the    *)
(* same 32 bytes key the cipher and the MAC, in enc and in dec.            *)
C9_Padded(secret) ==
    [j \in 1..KeyLen |-> IF j <= Len(secret) THEN secret[j] ELSE 0]

C9_IsTrimOf(k, data) ==
    /\ \E a \in 1..(Len(data) + 1) :
          /\ a + Len(k) - 1 <= Len(data)
          /\ k = SubSeq(data, a, a + Len(k) - 1)
          /\ TrimStart(SubSeq(data, 1, a - 1)) = <<>>
          /\ TrimStart(SubSeq(data, a + Len(k), Len(data))) = <<>>
    /\ LeadWs(k) = 0
    /\ TrailWs(k) = 0

C9_RawFitKey ==
    /\ (LastStep = "ReadKey" /\ Exited)
          => ~(ReadFile(key_file).exists /\ IsUtf8(ReadFile(key_file).data))
    /\ (Has("ReadKey") /\ ~(LastStep = "ReadKey" /\ Exited))
          => /\ Len(real_key) = KeyLen
             /\ real_key = C9_Padded(key)
             /\ written = <<>> => C9_IsTrimOf(key, ReadFile(key_file).data)
    /\ Has("EncEncrypt")
          => /\ encrypted = encrypt_data(C9_Padded(key), iv, input_data)
             /\ tag = HmacSha256(C9_Padded(key), iv \o encrypted)
    /\ Has("DecVerify") => tag = HmacSha256(C9_Padded(key), input_data)
    /\ Has("DecWrite")
          => decrypted = decrypt_data(C9_Padded(key), iv, encrypted).data

\* a secret longer than the key has gone through derivation into the MAC
C9_Witness ==
    /\ Len(key) > KeyLen
    /\ Has("EncEncrypt")
    /\ real_key = SubSeq(key, 1, KeyLen)

----------------------------------------------------------------------------
----------------------------------------------------------------------------
(* What the enc and dec branches do once a run is in them (SpecBody).      *)
(* These are not reached from the process start, see                       *)
(* ArgumentsNeverAccepted.                                                 *)

\* an enc run that ends with 0 has left iv || ciphertext and its HMAC, and
\* a dec run on such a pair with the same key ends with 0, the plaintext
\* at -out
Body_RoundTrip ==
    /\ (mode = "enc" /\ Exited /\ exit_code = 0 /\ output_file # tag_file)
          => /\ fs[output_file] = File(Envelope(key, iv, input_data))
             /\ fs[tag_file] = File(TagOf(key, Envelope(key, iv, input_data)))
    /\ \A v \in IVs, pl \in Plaintexts :
          (/\ mode = "dec"
           /\ Exited
           /\ Has("DecVerify")
           /\ input_data = Envelope(key, v, pl)
           /\ tag_data = TagOf(key, input_data)
           /\ CanWrite(output_file))
          => exit_code = 0 /\ fs[output_file] = File(pl)

\* a dec run on such a pair with one bit changed ends with 1
Body_TamperRefused ==
    \A v \in IVs, pl \in Plaintexts :
        LET e == Envelope(key, v, pl)
            t == TagOf(key, e)
        IN  (/\ mode = "dec"
             /\ Has("DecVerify")
             /\ \/ tag_data = t /\ \E n \in 1..Len(e) : input_data = FlipBit(e, n)
                \/ input_data = e /\ \E n \in 1..Len(t) : tag_data = FlipBit(t, n))
            => Exited /\ exit_code = 1 /\ written = <<>>

\* a dec run whose key file differs from the one the pair was made with
\* ends with 1 (violated: secrets that differ only in surrounding white
\* space, in trailing zero bytes or after byte 32 derive the same key)
Body_WrongKeyRefused ==
    \A kp \in {q \in KeyPaths : ReadableKey(q)} :
        \A v \in IVs, pl \in Plaintexts :
            LET e == Envelope(FileAt(kp).data, v, pl)
            IN  (/\ mode = "dec"
                 /\ Has("DecVerify")
                 /\ FileAt(kp).data # FileAt(key_file).data
                 /\ input_data = e
                 /\ tag_data = TagOf(FileAt(kp).data, e))
                => Exited /\ exit_code = 1 /\ written = <<>>

\* the same, for key files whose derived keys differ
Body_OtherKeyRefused ==
    \A kp \in {q \in KeyPaths : ReadableKey(q)} :
        \A v \in IVs, pl \in Plaintexts :
            LET e == Envelope(FileAt(kp).data, v, pl)
            IN  (/\ mode = "dec"
                 /\ Has("DecVerify")
                 /\ DerivedKey(kp) # DerivedKey(key_file)
                 /\ input_data = e
                 /\ tag_data = TagOf(FileAt(kp).data, e))
                => Exited /\ exit_code = 1 /\ written = <<>>

====
